---- MODULE Spec2Model ----
(***************************************************************************)
(* URL shortener (GloryWater/url_shortener): slug allocation, the          *)
(* cache-aside redirect path, click analytics, deletion and the expiry     *)
(* sweeper.                                                                *)
(*                                                                         *)
(* Requests are tasks of the asyncio event loop and of several server      *)
(* processes: a request's code between two awaited store or cache          *)
(* round-trips is one step, and steps of different requests interleave.    *)
(* Optional values (Python None) are <<>> and <<v>>.  A slug is a sequence *)
(* of characters; the newline character is LF.  Time is counted in ticks   *)
(* of half a day.                                                          *)
(***************************************************************************)
EXTENDS Integers, Sequences, FiniteSets, TLC

VARIABLES
    now,        \* datetime.now(UTC), in ticks
    settings,   \* Settings(): the configured values
    store,      \* table short_urls: the rows, in insertion order
    cache,      \* Redis keys url:{slug}: a set of [slug, long_url, exp]
    pc,         \* per request task: where its handler is
    req,        \* per request task: the request it is serving
    loc,        \* per request task: the handler's local variables
    resp,       \* per request task: the response or result of the last request
    sweep,      \* cleanup_expired_urls: the slugs still to drop from the cache
    swept,      \* cleanup_expired_urls: deleted_count and result of the last run
    clicks,     \* table clicks: the rows, in insertion order
    queue,      \* the arq queue: the process_click_event jobs not yet taken
    worker,     \* process_click_event: the last job taken and how it ended
    granted,    \* history: per slug, successful allocations not deleted since
    deleted,    \* history: slugs removed by DELETE and not allocated since
    removed_at, \* history: per slug not allocated since, when its row was removed
    locks,      \* Redis keys lock:{name} and, per task, its Lock object and call
    users,      \* table users: the rows, in insertion order
    auth        \* per client: the last /auth request and its response

vars == <<now, settings, store, cache, pc, req, loc, resp, sweep, swept, clicks,
          queue, worker, granted, deleted, removed_at, locks, users, auth>>

----------------------------------------------------------------------------
(* Bounds of the model *)

MaxTime == 3
MaxCfgAttempts == 6
\* jobs the queue holds and rows the clicks table holds at most
MaxJobs == 1
MaxClicks == 1
\* the longest lease (timeout) and the longest blocking_timeout of a lock call,
\* in ticks of the lock clock
MaxLease == 2
MaxBlock == 2

Procs == {"p1", "p2"}

----------------------------------------------------------------------------
(* Optional values *)

None == <<>>
Some(x) == <<x>>
Val(o) == o[1]

----------------------------------------------------------------------------
(* Program constants *)

LF == "LF"
Letters == {"a", "b", "Z"}
Digits == {"7"}
ALPHABET == Letters \cup Digits
SLUG_LENGTH == 6
MAX_ATTEMPTS == 5
MinCustomLen == 4
MaxCustomLen == 12
\* 86400 seconds and one day, both two ticks of half a day
redis_ttl == 2
TicksPerDay == 2

----------------------------------------------------------------------------
(* shortener.py: slug generation and validation *)

Repeat(c, n) == [i \in 1..n |-> c]

AllAlnum(s) == \A i \in 1..Len(s) : s[i] \in ALPHABET

Front(s) == SubSeq(s, 1, Len(s) - 1)

\* re.compile(r"^[a-zA-Z0-9]{4,12}$") as the pydantic field pattern: the whole
\* string is 4 to 12 alphanumeric characters.
FullMatch(s) == Len(s) >= MinCustomLen /\ Len(s) <= MaxCustomLen /\ AllAlnum(s)

\* CUSTOM_SLUG_PATTERN.match(slug): Python's "$" matches at the end of the
\* string and also just before a newline that ends the string.
PatternMatch(s) ==
    \/ FullMatch(s)
    \/ Len(s) >= 1 /\ s[Len(s)] = LF /\ FullMatch(Front(s))

is_valid_custom_slug(slug) == PatternMatch(slug)

\* generate_random_slug(): SLUG_LENGTH characters of ALPHABET; the model draws
\* the candidates that repeat one character.
generate_random_slug == {Repeat(c, SLUG_LENGTH) : c \in {"a", "b"}}

calculate_expires_at(days, t) ==
    IF days = None THEN None ELSE Some(t + Val(days) * TicksPerDay)

\* "if custom_slug:" is false for None and for the empty string
Truthy(o) == o # None /\ Val(o) # <<>>

----------------------------------------------------------------------------
(* database/models.py, database/crud.py: the store *)

\* A row that is taken for live whatever its expires_at
is_expired_never(row, t) == FALSE

ShortURL(slug, long_url, custom_slug, expires_at) ==
    [slug |-> slug, long_url |-> long_url, custom_slug |-> custom_slug,
     expires_at |-> expires_at]

is_expired(row, t) ==
    IF row.expires_at = None THEN FALSE ELSE t > Val(row.expires_at)

RowsWithSlug(st, slug) == SelectSeq(st, LAMBDA r : r.slug = slug)

RowsWithUrl(st, long_url) == SelectSeq(st, LAMBDA r : r.long_url = long_url)

\* Result.scalar_one_or_none(): the row, None, or MultipleResultsFound
scalar_one_or_none(rows) ==
    [raised |-> Len(rows) > 1,
     value |-> IF Len(rows) = 1 THEN Some(rows[1]) ELSE None]

\* A table without the primary key: the insert always succeeds
add_slug_without_constraint(st, row) == [raised |-> FALSE, store |-> Append(st, row)]

\* An insert that first drops the row of the slug: a taken slug is granted again
add_slug_replacing(st, row) ==
    [raised |-> FALSE,
     store |-> Append(SelectSeq(st, LAMBDA r : r.slug # row.slug), row)]

\* session.merge instead of session.add: the row of a taken slug is replaced
add_slug_merged(st, row) ==
    IF RowsWithSlug(st, row.slug) # <<>>
    THEN [raised |-> TRUE,
          store |-> [i \in 1..Len(st) |->
                       IF st[i].slug = row.slug THEN row ELSE st[i]]]
    ELSE [raised |-> FALSE, store |-> Append(st, row)]

\* session.add + commit: the primary key makes the insert fail with
\* IntegrityError when a row with the slug exists; rollback leaves the table.
add_slug_to_database(st, row) ==
    IF RowsWithSlug(st, row.slug) # <<>>
    THEN [raised |-> TRUE, store |-> st]
    ELSE [raised |-> FALSE, store |-> Append(st, row)]

get_long_url_by_slug_from_database(st, slug) ==
    scalar_one_or_none(RowsWithSlug(st, slug)).value

get_long_url_by_slug(st, slug, t) ==
    LET record == get_long_url_by_slug_from_database(st, slug)
    IN  IF record = None \/ is_expired(Val(record), t)
        THEN None
        ELSE Some(Val(record).long_url)

\* delete_slug_from_database without "if record is None: return False"
delete_slug_unchecked(st, slug) ==
    [deleted |-> TRUE, store |-> SelectSeq(st, LAMBDA r : r.slug # slug)]

delete_slug_from_database(st, slug) ==
    LET record == get_long_url_by_slug_from_database(st, slug)
    IN  IF record = None
        THEN [deleted |-> FALSE, store |-> st]
        ELSE [deleted |-> TRUE,
              store |-> SelectSeq(st, LAMBDA r : r.slug # slug)]

get_url_by_long_url(st, long_url) == scalar_one_or_none(RowsWithUrl(st, long_url))

----------------------------------------------------------------------------
(* database/models.py and database/crud.py: the table clicks *)

\* The columns of Click that a caller may set (id and clicked_at are filled
\* in by the database)
ClickColumns == {"slug", "ip_address", "user_agent", "referer"}

\* Click(**kwargs): the declarative constructor raises TypeError for a keyword
\* that is not an attribute of the class
Click(kwargs) ==
    IF DOMAIN kwargs \subseteq ClickColumns
    THEN [raised |-> "", row |-> Some(kwargs)]
    ELSE [raised |-> "TypeError", row |-> None]

\* session.add(click); commit: clicks.slug is a foreign key to short_urls.slug
add_click(cl, st, click) ==
    IF click.raised # ""
    THEN [raised |-> click.raised, clicks |-> cl]
    ELSE IF RowsWithSlug(st, Val(click.row).slug) = <<>>
    THEN [raised |-> "IntegrityError", clicks |-> cl]
    ELSE [raised |-> "", clicks |-> Append(cl, Val(click.row))]

record_click(cl, st, slug, ip_address, user_agent, referer) ==
    add_click(cl, st, Click([slug |-> slug, ip_address |-> ip_address,
                             user_agent |-> user_agent, referer |-> referer]))

create_click_enriched(cl, st, slug, ip_address, user_agent, referer, country, city, browser, os, device) ==
    add_click(cl, st, Click([slug |-> slug, ip_address |-> ip_address,
                             user_agent |-> user_agent, referer |-> referer,
                             country |-> country, city |-> city,
                             browser |-> browser, os |-> os, device |-> device]))

ClicksOf(cl, slug) == SelectSeq(cl, LAMBDA c : c.slug = slug)

\* get_click_stats_for_slug: total_clicks
get_click_stats_for_slug(cl, slug) == Len(ClicksOf(cl, slug))

\* The clicks of a deleted row go with it (relationship cascade "all,
\* delete-orphan" and ON DELETE CASCADE)
DeleteClicksKept(cl, slugs) == cl

DeleteClicksCascade(cl, slugs) == SelectSeq(cl, LAMBDA c : c.slug \notin slugs)

----------------------------------------------------------------------------
(* service.py *)

\* get_url_by_slug: NoLongUrlFoundError when absent or expired
get_url_by_slug(st, slug, t) ==
    LET long_url == get_long_url_by_slug(st, slug, t)
    IN  [raised |-> long_url = None, value |-> long_url]

check_existing_url(st, long_url, t) ==
    LET found == get_url_by_long_url(st, long_url)
    IN  IF found.raised
        THEN [raised |-> TRUE, value |-> None]
        ELSE IF found.value # None /\ ~is_expired(Val(found.value), t)
        THEN [raised |-> FALSE, value |-> Some(Val(found.value).slug)]
        ELSE [raised |-> FALSE, value |-> None]

----------------------------------------------------------------------------
(* cache/redis_client.py: every operation takes "up", whether Redis answered *)

CacheLookup(c, slug) ==
    LET hit == {e \in c : e.slug = slug}
    IN  IF hit = {} THEN None ELSE Some((CHOOSE e \in hit : TRUE).long_url)

\* client.get inside try/except RedisError: a failure reads as a miss
get_cached_url(c, slug, up) == IF up THEN CacheLookup(c, slug) ELSE None

\* setex without the except clause: a Redis failure reaches the caller
cache_url_unguarded(c, slug, long_url, up, t) ==
    [raised |-> ~up,
     cache |-> IF up
               THEN {e \in c : e.slug # slug}
                    \cup {[slug |-> slug, long_url |-> long_url, exp |-> t + redis_ttl]}
               ELSE c]

\* setex with a time to live one tick short of redis_ttl
cache_url_short(c, slug, long_url, up, t) ==
    [raised |-> FALSE,
     cache |-> IF up
               THEN {e \in c : e.slug # slug}
                    \cup {[slug |-> slug, long_url |-> long_url,
                           exp |-> t + redis_ttl - 1]}
               ELSE c]

\* client.setex inside try/except RedisError: the key is overwritten and
\* lives for redis_ttl; nothing is raised
cache_url(c, slug, long_url, up, t) ==
    [raised |-> FALSE,
     cache |-> IF up
               THEN {e \in c : e.slug # slug}
                    \cup {[slug |-> slug, long_url |-> long_url, exp |-> t + redis_ttl]}
               ELSE c]

\* A deletion that leaves the key in place
delete_cached_url_kept(c, slug, up) == c

\* client.delete inside try/except RedisError
delete_cached_url(c, slug, up) == IF up THEN {e \in c : e.slug # slug} ELSE c

\* Redis drops a key once its time to live is over
ExpireKeys(c, t) == {e \in c : e.exp > t}

----------------------------------------------------------------------------
(* Inputs of the requests *)

SlugA == Repeat("a", SLUG_LENGTH)
SlugB == Repeat("b", SLUG_LENGTH)
SlugDash == <<"a", "-", "a", "a">>

Urls == {"u1", "u2"}

\* The client address and the User-Agent and Referer headers of a request:
\* all absent, or an address, a user agent and an empty Referer
NoHeaders == [client |-> None, user_agent |-> None, referer |-> None]
SomeHeaders ==
    [client |-> Some("ip1"), user_agent |-> Some("ua1"), referer |-> Some("")]
Headers == {NoHeaders, SomeHeaders}

\* Whether create_pool and enqueue_job go through: never while the queue's
\* Redis cannot be reached
QueueDown == {FALSE}
QueueUpOrDown == BOOLEAN
DayInputs == {None, Some(1)}
CustomInputs == {None, Some(SlugA), Some(SlugDash)}
PathSlugs == {SlugA, SlugB}

----------------------------------------------------------------------------
(* Initial state *)

NoRequest == [op |-> "none", slug |-> None, long_url |-> None,
              custom_slug |-> None, expires_in_days |-> None]

\* attempt is the loop variable of generate_short_url; calls counts its calls of
\* add_slug_to_database and tried is the slug of the last one; cache_ok and
\* db_failed record whether a cache operation succeeded and the store failed.
NoClient == [ip_address |-> None, user_agent |-> None, referer |-> None]

\* client is what the request carries for analytics and enqueued whether its
\* click job was queued; loaded counts the clicks of the row that a delete
\* loaded (relationship clicks, lazy="selectin"); hit is whether get_cached_url
\* returned a URL and cached what cache_url returned.
NoLocals == [long_url |-> None, expires_at |-> None, attempt |-> 0, calls |-> 0,
             tried |-> None, cache_ok |-> FALSE, db_failed |-> FALSE,
             client |-> NoClient, enqueued |-> FALSE, loaded |-> 0,
             hit |-> FALSE, cached |-> FALSE]

NoResponse == [status |-> 0, raised |-> "", detail |-> "", data |-> None,
               long_url |-> None, custom_slug |-> FALSE, expires_at |-> None,
               total_clicks |-> 0, items |-> <<>>]

\* failed counts the delete_cached_url calls of the run that failed and
\* removed the keys that its calls removed.
NoRun == [deleted_count |-> 0, failed |-> 0, removed |-> 0, result |-> None]

NoJob == [job |-> None, raised |-> "", country |-> None, browser |-> None]

\* No key lock:{name} in Redis, no call of acquire_distributed_lock under way
\* and no Lock object handed out
NoCall == [at |-> "none", timeout |-> 0, blocking |-> FALSE, blocking_timeout |-> 0,
           waited |-> 0]

NoLocks == [key |-> None,
            call |-> [p \in Procs |-> NoCall],
            obj |-> [p \in Procs |-> "none"],
            result |-> [p \in Procs |-> ""]]

NoAuth == [op |-> "none", email |-> "", password |-> "", status |-> 0,
           detail |-> "", access_token |-> None, token_type |-> ""]

DefaultSettings == [slug_max_attempts |-> MAX_ATTEMPTS, slug_length |-> SLUG_LENGTH]

InitCommon ==
    /\ now = 0
    /\ store = <<>>
    /\ cache = {}
    /\ pc = [p \in Procs |-> "idle"]
    /\ req = [p \in Procs |-> NoRequest]
    /\ loc = [p \in Procs |-> NoLocals]
    /\ resp = [p \in Procs |-> NoResponse]
    /\ sweep = <<>>
    /\ swept = NoRun
    /\ clicks = <<>>
    /\ queue = <<>>
    /\ worker = NoJob
    /\ granted = [s \in {} |-> 0]
    /\ deleted = {}
    /\ removed_at = [s \in {} |-> 0]
    /\ locks = NoLocks
    /\ users = <<>>
    /\ auth = [p \in Procs |-> NoAuth]

Init == InitCommon /\ settings = DefaultSettings

----------------------------------------------------------------------------
(* History of allocations and deletions *)

Granted(g, slug) == IF slug \in DOMAIN g THEN g[slug] ELSE 0

Grant(g, slug) ==
    [s \in DOMAIN g \cup {slug} |-> IF s = slug THEN Granted(g, slug) + 1 ELSE g[s]]

Revoke(g, slugs) == [s \in DOMAIN g \ slugs |-> g[s]]

RemovedAt(r, slugs, t) ==
    [s \in DOMAIN r \cup slugs |-> IF s \in slugs THEN t ELSE r[s]]

----------------------------------------------------------------------------
(* Beginning and end of a request *)

Idle(p) == pc[p] \in {"idle", "done"}

Begin(p, r, l, at) ==
    /\ req' = [req EXCEPT ![p] = r]
    /\ loc' = [loc EXCEPT ![p] = l]
    /\ pc' = [pc EXCEPT ![p] = at]

Respond(p, r) ==
    /\ pc' = [pc EXCEPT ![p] = "done"]
    /\ resp' = [resp EXCEPT ![p] = r]

----------------------------------------------------------------------------
(* main.py: POST /api/v1/urls *)

\* ShortenUrlRequest: custom_slug matches the pattern, expires_in_days is 1..365
ShortenUrlRequestValid(body) ==
    /\ body.custom_slug = None \/ FullMatch(Val(body.custom_slug))
    /\ body.expires_in_days = None
       \/ (Val(body.expires_in_days) >= 1 /\ Val(body.expires_in_days) <= 365)

\* The outcome of shortener.generate_short_url: a returned pair or an exception
Returned(slug, is_custom) ==
    [raised |-> "", detail |-> "", slug |-> Some(slug), is_custom |-> is_custom]

Raised(exc, detail) ==
    [raised |-> exc, detail |-> detail, slug |-> None, is_custom |-> FALSE]

\* create_short_url around generate_short_url: SlugAlreadyExistsError becomes
\* 409 with the message as detail, any other exception is answered by
\* general_exception_handler
create_short_url_response(r, out, expires_at) ==
    IF out.raised = "SlugAlreadyExistsError"
    THEN [NoResponse EXCEPT !.status = 409, !.raised = out.raised, !.detail = out.detail]
    ELSE IF out.raised # ""
    THEN [NoResponse EXCEPT !.status = 500, !.raised = out.raised,
                            !.detail = "Internal server error"]
    ELSE [NoResponse EXCEPT !.status = 200, !.data = out.slug,
                            !.long_url = r.long_url,
                            !.custom_slug = out.is_custom,
                            !.expires_at = expires_at]

\* The dedup answer of create_short_url
existing_url_response(r, slug) ==
    [NoResponse EXCEPT !.status = 200, !.data = Some(slug), !.long_url = r.long_url]

\* Validation of the body, then check_existing_url, up to the first insert
CreateRequest(p, urls, customs, days) ==
    /\ Idle(p)
    /\ \E url \in urls, c \in customs, d \in days :
         LET body == [op |-> "create", slug |-> None, long_url |-> Some(url),
                      custom_slug |-> c, expires_in_days |-> d]
             existing == check_existing_url(store, url, now)
         IN  IF ~ShortenUrlRequestValid(body)
             THEN /\ Begin(p, body, NoLocals, "done")
                  /\ resp' = [resp EXCEPT ![p] = [NoResponse EXCEPT !.status = 422]]
             ELSE IF existing.raised
             THEN /\ Begin(p, body, NoLocals, "done")
                  /\ resp' = [resp EXCEPT ![p] =
                                [NoResponse EXCEPT !.status = 500,
                                                   !.raised = "MultipleResultsFound",
                                                   !.detail = "Internal server error"]]
             ELSE IF existing.value # None
             THEN /\ Begin(p, body, NoLocals, "done")
                  /\ resp' = [resp EXCEPT ![p] =
                                existing_url_response(body, Val(existing.value))]
             ELSE /\ Begin(p, body,
                           [NoLocals EXCEPT !.expires_at = calculate_expires_at(d, now)],
                           "alloc")
                  /\ resp' = [resp EXCEPT ![p] = NoResponse]
    /\ UNCHANGED <<now, settings, store, cache, sweep, swept, clicks, queue,
                   worker, locks, users, auth, granted, deleted, removed_at>>

----------------------------------------------------------------------------
(* shortener.py: generate_short_url, one call of add_slug_to_database a step *)

\* What the caller of service.generate_short_url gets: the HTTP handler turns
\* it into a response, a direct caller sees the result or the exception.
generate_short_url_result(out, expires_at) ==
    [NoResponse EXCEPT !.raised = out.raised, !.detail = out.detail,
                       !.data = out.slug, !.custom_slug = out.is_custom,
                       !.expires_at = IF out.raised = "" THEN expires_at ELSE None]

Finish(p, out) ==
    Respond(p, IF req[p].op = "create"
               THEN create_short_url_response(req[p], out, loc[p].expires_at)
               ELSE generate_short_url_result(out, loc[p].expires_at))

\* A taken custom slug that is tried again instead of being reported
CustomSlugTakenRetry(p) == UNCHANGED <<pc, resp>>

\* "except SlugAlreadyExistsError: raise SlugAlreadyExistsError(...)"
CustomSlugTaken(p) ==
    Finish(p, Raised("SlugAlreadyExistsError", "Custom slug already exists"))

\* The branch "if custom_slug:": the format check, then a single insert
AllocCustom(p) ==
    /\ pc[p] = "alloc"
    /\ Truthy(req[p].custom_slug)
    /\ LET slug == Val(req[p].custom_slug)
           ins == add_slug_to_database(
                      store, ShortURL(slug, Val(req[p].long_url), TRUE, loc[p].expires_at))
       IN  IF ~is_valid_custom_slug(slug)
           THEN /\ Finish(p, Raised("ValueError", "Custom slug must be 4-12 alphanumeric characters"))
                /\ UNCHANGED <<store, loc, granted, deleted>>
           ELSE /\ loc' = [loc EXCEPT ![p].calls = @ + 1, ![p].tried = Some(slug)]
                /\ store' = ins.store
                /\ IF ins.raised
                   THEN /\ CustomSlugTaken(p)
                        /\ UNCHANGED <<granted, deleted>>
                   ELSE /\ Finish(p, Returned(slug, TRUE))
                        /\ granted' = Grant(granted, slug)
                        /\ deleted' = deleted \ {slug}
    /\ removed_at' = IF store' # store /\ Len(store') > Len(store)
                      THEN Revoke(removed_at, {store'[Len(store')].slug})
                      ELSE removed_at
    /\ UNCHANGED <<now, settings, cache, req, sweep, swept, clicks, queue,
                   worker, locks, users, auth>>

\* One iteration of "for attempt in range(MAX_ATTEMPTS)"
AllocRandom(p) ==
    /\ pc[p] = "alloc"
    /\ ~Truthy(req[p].custom_slug)
    /\ \E slug \in generate_random_slug :
         LET ins == add_slug_to_database(
                        store, ShortURL(slug, Val(req[p].long_url), FALSE, loc[p].expires_at))
         IN  /\ store' = ins.store
             /\ IF ~ins.raised
                THEN /\ loc' = [loc EXCEPT ![p].calls = @ + 1, ![p].tried = Some(slug)]
                     /\ Finish(p, Returned(slug, FALSE))
                     /\ granted' = Grant(granted, slug)
                     /\ deleted' = deleted \ {slug}
                ELSE IF loc[p].attempt = MAX_ATTEMPTS - 1
                THEN /\ loc' = [loc EXCEPT ![p].calls = @ + 1, ![p].tried = Some(slug)]
                     /\ Finish(p, Raised("SlugAlreadyExistsError",
                                         "Failed to generate unique slug after MAX_ATTEMPTS attempts"))
                     /\ UNCHANGED <<granted, deleted>>
                ELSE /\ loc' = [loc EXCEPT ![p].calls = @ + 1, ![p].tried = Some(slug),
                                           ![p].attempt = @ + 1]
                     /\ UNCHANGED <<pc, resp, granted, deleted>>
    /\ removed_at' = IF store' # store /\ Len(store') > Len(store)
                      THEN Revoke(removed_at, {store'[Len(store')].slug})
                      ELSE removed_at
    /\ UNCHANGED <<now, settings, cache, req, sweep, swept, clicks, queue,
                   worker, locks, users, auth>>

\* A direct call of service.generate_short_url(long_url, session, custom_slug,
\* expires_in_days), as the service tests make it: calculate_expires_at, then
\* shortener.generate_short_url
AllocateCall(p, urls, customs, days) ==
    /\ Idle(p)
    /\ \E url \in urls, c \in customs, d \in days :
         Begin(p, [op |-> "allocate", slug |-> None, long_url |-> Some(url),
                   custom_slug |-> c, expires_in_days |-> d],
               [NoLocals EXCEPT !.expires_at = calculate_expires_at(d, now)], "alloc")
    /\ resp' = [resp EXCEPT ![p] = NoResponse]
    /\ UNCHANGED <<now, settings, store, cache, sweep, swept, clicks, queue,
                   worker, locks, users, auth, granted, deleted, removed_at>>

----------------------------------------------------------------------------
(* main.py: GET /{slug}, the cache-aside redirect *)

redirect_response(long_url) ==
    [NoResponse EXCEPT !.status = 302, !.long_url = Some(long_url)]

not_found_response ==
    [NoResponse EXCEPT !.status = 404, !.detail = "URL not found or expired"]

\* get_client_ip: the address of the client, if the request has one
get_client_ip(h) == h.client

\* get_user_agent and get_referer, "str(headers.get(name)) or None": an absent
\* header gives the text "None" and an empty one gives None
header_or_none(h) ==
    IF h = None THEN Some("None") ELSE IF Val(h) = "" THEN None ELSE h

ClientOf(h) ==
    [ip_address |-> get_client_ip(h), user_agent |-> header_or_none(h.user_agent),
     referer |-> header_or_none(h.referer)]

ClickJob(slug, client) ==
    [slug |-> slug, ip_address |-> client.ip_address,
     user_agent |-> client.user_agent, referer |-> client.referer]

\* A redirect whose failure to queue the click job reaches the client
enqueue_uncaught_response(long_url, ok) ==
    IF ok
    THEN redirect_response(long_url)
    ELSE [NoResponse EXCEPT !.status = 500, !.detail = "Internal server error"]

\* create_pool and enqueue_job inside "try: ... except Exception", then the
\* RedirectResponse
enqueue_response(long_url, ok) == redirect_response(long_url)

\* What create_pool and enqueue_job leave in the queue
enqueue_job(q, job, ok) == IF ok THEN Append(q, job) ELSE q

\* get_cached_url; on a hit increment_cache_hits, the click job and the redirect
RedirectRequest(p, slugs, headers, oks) ==
    /\ Idle(p)
    /\ \E slug \in slugs, up \in BOOLEAN, h \in headers, ok \in oks \cup {FALSE} :
         LET r == [NoRequest EXCEPT !.op = "redirect", !.slug = Some(slug)]
             long_url == get_cached_url(cache, slug, up)
             l == [NoLocals EXCEPT !.client = ClientOf(h)]
         IN  IF long_url # None
             THEN /\ ok => Len(queue) < MaxJobs
                  /\ Begin(p, r, [l EXCEPT !.long_url = long_url, !.cache_ok = TRUE,
                                           !.enqueued = ok, !.hit = TRUE], "done")
                  /\ resp' = [resp EXCEPT ![p] = enqueue_response(Val(long_url), ok)]
                  /\ queue' = enqueue_job(queue, ClickJob(slug, l.client), ok)
             ELSE /\ ~ok
                  /\ Begin(p, r, [l EXCEPT !.cache_ok = up], "db")
                  /\ resp' = [resp EXCEPT ![p] = NoResponse]
                  /\ UNCHANGED queue
    /\ UNCHANGED <<now, settings, store, cache, sweep, swept, clicks, worker,
                   locks, users, auth, granted, deleted, removed_at>>

\* increment_cache_misses, then get_url_by_slug inside "try: ... except
\* Exception": a miss in the store and a failure of the store both end in 404
RedirectStore(p) ==
    /\ pc[p] = "db"
    /\ \E db_up \in BOOLEAN, incr_up \in BOOLEAN :
         LET found == get_url_by_slug(store, Val(req[p].slug), now)
         IN  IF ~db_up
             THEN /\ loc' = [loc EXCEPT ![p].db_failed = TRUE,
                                        ![p].cache_ok = @ \/ incr_up]
                  /\ Respond(p, not_found_response)
             ELSE IF found.raised
             THEN /\ loc' = [loc EXCEPT ![p].cache_ok = @ \/ incr_up]
                  /\ Respond(p, not_found_response)
             ELSE /\ loc' = [loc EXCEPT ![p].long_url = found.value,
                                        ![p].cache_ok = @ \/ incr_up]
                  /\ pc' = [pc EXCEPT ![p] = "cache"]
                  /\ UNCHANGED resp
    /\ UNCHANGED <<now, settings, store, cache, req, sweep, swept, clicks,
                   queue, worker, locks, users, auth, granted, deleted,
                   removed_at>>

\* cache_url(slug, long_url) inside the same try, then the click job and the
\* redirect
RedirectCache(p, oks) ==
    /\ pc[p] = "cache"
    /\ \E up \in BOOLEAN, ok \in oks \cup {FALSE} :
         LET set == cache_url(cache, Val(req[p].slug), Val(loc[p].long_url), up, now)
         IN  IF set.raised
             THEN /\ ~ok
                  /\ Respond(p, not_found_response)
                  /\ UNCHANGED <<cache, loc, queue>>
             ELSE /\ ok => Len(queue) < MaxJobs
                  /\ cache' = set.cache
                  /\ loc' = [loc EXCEPT ![p].cache_ok = @ \/ up, ![p].enqueued = ok,
                                        ![p].cached = up]
                  /\ Respond(p, enqueue_response(Val(loc[p].long_url), ok))
                  /\ queue' = enqueue_job(queue, ClickJob(Val(req[p].slug),
                                                          loc[p].client), ok)
    /\ UNCHANGED <<now, settings, store, req, sweep, swept, clicks, worker,
                   locks, users, auth, granted, deleted, removed_at>>

----------------------------------------------------------------------------
(* main.py: DELETE /api/v1/urls/{slug} *)

delete_response(success) ==
    IF success
    THEN [NoResponse EXCEPT !.status = 200, !.detail = "URL successfully deleted"]
    ELSE [NoResponse EXCEPT !.status = 404, !.detail = "URL not found"]

\* delete_url: the row is deleted from the store and its clicks with it; the
\* cache is not touched
DeleteRequest(p, slugs) ==
    /\ Idle(p)
    /\ \E slug \in slugs :
         LET del == delete_slug_from_database(store, slug)
         IN  /\ Begin(p, [NoRequest EXCEPT !.op = "delete", !.slug = Some(slug)],
                      [NoLocals EXCEPT !.loaded = Len(ClicksOf(clicks, slug))], "done")
             /\ resp' = [resp EXCEPT ![p] = delete_response(del.deleted)]
             /\ store' = del.store
             /\ clicks' = IF del.deleted
                           THEN DeleteClicksCascade(clicks, {slug})
                           ELSE clicks
             /\ granted' = IF del.deleted THEN Revoke(granted, {slug}) ELSE granted
             /\ deleted' = IF del.deleted THEN deleted \cup {slug} ELSE deleted
             /\ removed_at' = IF del.deleted
                               THEN RemovedAt(removed_at, {slug}, now)
                               ELSE removed_at
    /\ UNCHANGED <<now, settings, cache, sweep, swept, queue, worker, locks,
                   users, auth>>

----------------------------------------------------------------------------
(* worker.py: cleanup_expired_urls *)

Expired(st, t) ==
    SelectSeq(st, LAMBDA r : r.expires_at # None /\ Val(r.expires_at) < t)

SlugsOf(rows) == [i \in 1..Len(rows) |-> rows[i].slug]

Unexpired(st, t) ==
    SelectSeq(st, LAMBDA r : ~(r.expires_at # None /\ Val(r.expires_at) < t))

Range(seq) == {seq[i] : i \in 1..Len(seq)}

\* A run that ends without a result once a cache deletion has failed
cleanup_aborted(run, up, last) ==
    [run EXCEPT !.failed = IF up THEN @ ELSE @ + 1,
                !.result = IF last /\ up /\ run.failed = 0
                           THEN Some(run.deleted_count) ELSE None]

\* The run after one delete_cached_url call: its value is not looked at, and
\* after the last one the run returns {"deleted_count": deleted_count}
cleanup_progress(run, up, last) ==
    [run EXCEPT !.failed = IF up THEN @ ELSE @ + 1,
                !.result = IF last THEN Some(run.deleted_count) ELSE None]

\* select the expired rows, delete them (and their clicks) and commit
SweepStore ==
    /\ sweep = <<>>
    /\ Expired(store, now) # <<>>
    /\ store' = Unexpired(store, now)
    /\ sweep' = SlugsOf(Expired(store, now))
    /\ swept' = [NoRun EXCEPT !.deleted_count = Len(Expired(store, now))]
    /\ clicks' = DeleteClicksCascade(clicks, Range(sweep'))
    /\ granted' = Revoke(granted, Range(sweep'))
    /\ removed_at' = RemovedAt(removed_at, Range(sweep'), now)
    /\ UNCHANGED <<now, settings, cache, pc, req, loc, resp, queue, worker,
                   locks, users, auth, deleted>>

\* "for url in expired_urls: await delete_cached_url(url.slug, settings)"
SweepCache ==
    /\ sweep # <<>>
    /\ \E up \in BOOLEAN :
         /\ cache' = delete_cached_url(cache, Head(sweep), up)
         /\ swept' = [cleanup_progress(swept, up, Tail(sweep) = <<>>)
                        EXCEPT !.removed = IF cache' # cache THEN @ + 1 ELSE @]
    /\ sweep' = Tail(sweep)
    /\ UNCHANGED <<now, settings, store, pc, req, loc, resp, clicks, queue,
                   worker, locks, users, auth, granted, deleted, removed_at>>

----------------------------------------------------------------------------
(* worker.py: process_click_event *)

\* "if user_agent", "if ip_address": a text that is present and not empty
TruthyText(o) == o # None /\ Val(o) # ""

\* parse_user_agent inside try/except: browser is None when there is no user
\* agent or the parse fails
parse_browser(user_agent, parsed) ==
    IF TruthyText(user_agent) /\ parsed THEN Some("browser") ELSE None

\* The GeoIP lookup inside try/except: country is None when there is no
\* address, no geoip_db_path or the lookup fails
lookup_country(ip_address, found) ==
    IF TruthyText(ip_address) /\ found THEN Some("country") ELSE None

\* The worker takes a job: enrichment, then create_click_enriched
ProcessClick ==
    /\ queue # <<>>
    /\ \E parsed \in BOOLEAN, found \in BOOLEAN :
         LET job == Head(queue)
             browser == parse_browser(job.user_agent, parsed)
             country == lookup_country(job.ip_address, found)
             out == create_click_enriched(clicks, store, job.slug, job.ip_address,
                                          job.user_agent, job.referer, country,
                                          country, browser, browser, browser)
         IN  /\ clicks' = out.clicks
             /\ worker' = [job |-> Some(job), raised |-> out.raised,
                           country |-> country, browser |-> browser]
    /\ queue' = Tail(queue)
    /\ UNCHANGED <<now, settings, store, cache, pc, req, loc, resp, sweep,
                   swept, granted, deleted, removed_at, locks, users, auth>>

----------------------------------------------------------------------------
(* service.py: record_click, and main.py: GET /api/v1/urls/{slug}/stats *)

\* record_click called directly
RecordClickCall(p, slugs) ==
    /\ Idle(p)
    /\ Len(clicks) < MaxClicks
    /\ \E slug \in slugs, h \in Headers :
         LET c == ClientOf(h)
             out == record_click(clicks, store, slug, c.ip_address, c.user_agent,
                                 c.referer)
         IN  /\ Begin(p, [NoRequest EXCEPT !.op = "record_click", !.slug = Some(slug)],
                      [NoLocals EXCEPT !.client = c], "done")
             /\ resp' = [resp EXCEPT ![p] = [NoResponse EXCEPT !.raised = out.raised]]
             /\ clicks' = out.clicks
    /\ UNCHANGED <<now, settings, store, cache, sweep, swept, queue, worker,
                   granted, deleted, removed_at, locks, users, auth>>

\* get_url_stats
StatsRequest(p, slugs) ==
    /\ Idle(p)
    /\ \E slug \in slugs :
         /\ Begin(p, [NoRequest EXCEPT !.op = "stats", !.slug = Some(slug)],
                  NoLocals, "done")
         /\ resp' = [resp EXCEPT ![p] =
                       [NoResponse EXCEPT !.status = 200,
                          !.total_clicks = get_click_stats_for_slug(clicks, slug)]]
    /\ UNCHANGED <<now, settings, store, cache, sweep, swept, clicks, queue,
                   worker, locks, users, auth, granted, deleted, removed_at>>

----------------------------------------------------------------------------
(* main.py: GET /api/v1/urls/{slug} and GET /api/v1/urls *)

\* The dictionary get_url_info and list_urls build from a row
url_info(cl, record) ==
    [slug |-> record.slug, long_url |-> record.long_url,
     custom_slug |-> record.custom_slug, expires_at |-> record.expires_at,
     click_count |-> get_click_stats_for_slug(cl, record.slug)]

\* get_url_info: get_long_url_by_slug_from_database, then the dictionary, or
\* NoLongUrlFoundError, which shortener_error_handler answers with 404
get_url_info(st, cl, slug) ==
    LET record == get_long_url_by_slug_from_database(st, slug)
    IN  IF record = None
        THEN [NoResponse EXCEPT !.status = 404, !.raised = "NoLongUrlFoundError",
                                !.detail = "URL not found"]
        ELSE [NoResponse EXCEPT !.status = 200, !.data = Some(Val(record).slug),
                                !.long_url = Some(Val(record).long_url),
                                !.custom_slug = Val(record).custom_slug,
                                !.expires_at = Val(record).expires_at,
                                !.total_clicks = url_info(cl, Val(record)).click_count]

InfoRequest(p, slugs) ==
    /\ Idle(p)
    /\ \E slug \in slugs :
         /\ Begin(p, [NoRequest EXCEPT !.op = "info", !.slug = Some(slug)],
                  NoLocals, "done")
         /\ resp' = [resp EXCEPT ![p] = get_url_info(store, clicks, slug)]
    /\ UNCHANGED <<now, settings, store, cache, sweep, swept, clicks, queue, worker,
                   granted, deleted, removed_at, locks, users, auth>>

Reverse(seq) == [i \in 1..Len(seq) |-> seq[Len(seq) + 1 - i]]

Min(a, b) == IF a < b THEN a ELSE b

\* get_all_urls_paginated: count(slug), and the rows newest first from
\* offset (page - 1) * limit, at most limit of them
get_all_urls_paginated(st, page, limit) ==
    [records |-> SubSeq(Reverse(st), (page - 1) * limit + 1,
                        Min(page * limit, Len(st))),
     total |-> Len(st)]

\* list_urls
list_urls(st, cl, page, limit) ==
    LET found == get_all_urls_paginated(st, page, limit)
    IN  [items |-> [i \in 1..Len(found.records) |-> url_info(cl, found.records[i])],
         total |-> found.total]

Pages == {1, 2}
Limits == {1, 20}

\* list_all_urls
ListRequest(p, pages, limits) ==
    /\ Idle(p)
    /\ \E page \in pages, limit \in limits :
         LET out == list_urls(store, clicks, page, limit)
         IN  /\ Begin(p, [NoRequest EXCEPT !.op = "list"], NoLocals, "done")
             /\ resp' = [resp EXCEPT ![p] =
                           [NoResponse EXCEPT !.status = 200, !.items = out.items,
                                              !.total_clicks = out.total]]
    /\ UNCHANGED <<now, settings, store, cache, sweep, swept, clicks, queue, worker,
                   granted, deleted, removed_at, locks, users, auth>>

----------------------------------------------------------------------------
(* Time *)

Tick ==
    /\ now < MaxTime
    /\ now' = now + 1
    /\ cache' = ExpireKeys(cache, now + 1)
    /\ UNCHANGED <<settings, store, pc, req, loc, resp, sweep, swept, clicks,
                   queue, worker, locks, users, auth, granted, deleted,
                   removed_at>>

----------------------------------------------------------------------------
(* cache/redis_client.py: the distributed lock. The lock clock ticks once  *)
(* per sleep of Lock.acquire between two attempts; a Redis command takes   *)
(* no time on it.                                                          *)

\* SET lock:{name} token NX PX timeout
do_acquire(key, p, timeout) ==
    IF key = None
    THEN [acquired |-> TRUE, key |-> Some([token |-> p, ttl |-> timeout])]
    ELSE [acquired |-> FALSE, key |-> key]

\* One round of "acquired = await lock.acquire()": the attempt, and when it
\* fails the decision to give up or to sleep until the next one
lock_acquire(key, p, call, up) ==
    LET set == do_acquire(key, p, call.timeout)
    IN  IF ~up
        THEN [raised |-> "RedisError", acquired |-> FALSE, sleep |-> FALSE, key |-> key]
        ELSE IF set.acquired
        THEN [raised |-> "", acquired |-> TRUE, sleep |-> FALSE, key |-> set.key]
        ELSE IF ~call.blocking \/ call.waited + 1 > call.blocking_timeout
        THEN [raised |-> "", acquired |-> FALSE, sleep |-> FALSE, key |-> key]
        ELSE [raised |-> "", acquired |-> FALSE, sleep |-> TRUE, key |-> key]

\* acquire_distributed_lock without its "except RedisError"
acquire_uncaught(out) ==
    IF out.raised # "" THEN out.raised
    ELSE IF out.acquired THEN "lock" ELSE "None"

\* What acquire_distributed_lock returns: the lock, or None when the lock was
\* not acquired or Redis raised
acquire_distributed_lock(out) ==
    IF out.raised # "" THEN "None"
    ELSE IF out.acquired THEN "lock" ELSE "None"

\* The attempt of task p under the parameters of its call; the parameters are
\* kept while the call sleeps and while the task holds the lock it returned
AcquireAttempt(p, call, up) ==
    LET out == lock_acquire(locks.key, p, call, up)
    IN  locks' = [locks EXCEPT
            !.key = out.key,
            !.call[p] = IF out.sleep THEN [call EXCEPT !.at = "sleep"]
                        ELSE IF out.acquired THEN [call EXCEPT !.at = "none"]
                        ELSE NoCall,
            !.obj[p] = IF out.acquired THEN "held" ELSE "none",
            !.result[p] = IF out.sleep THEN "" ELSE acquire_distributed_lock(out)]

\* Everything but the locks
NoLockFrame ==
    UNCHANGED <<now, settings, store, cache, pc, req, loc, resp, sweep, swept,
                clicks, queue, worker, granted, deleted, removed_at, users, auth>>

\* acquire_distributed_lock(lock_name, settings, timeout, blocking,
\* blocking_timeout): the call and its first attempt
AcquireCall(p, timeouts, blocking_timeouts) ==
    /\ locks.obj[p] = "none" /\ locks.call[p].at = "none"
    /\ \E t \in timeouts, b \in BOOLEAN, bt \in blocking_timeouts, up \in BOOLEAN :
         AcquireAttempt(p, [at |-> "none", timeout |-> t, blocking |-> b,
                            blocking_timeout |-> bt, waited |-> 0], up)
    /\ NoLockFrame

\* The next attempt of a call whose sleep is over
AcquireRetry(p) ==
    /\ locks.call[p].at = "wake"
    /\ \E up \in BOOLEAN : AcquireAttempt(p, locks.call[p], up)
    /\ NoLockFrame

\* "await lock.release()": the Lock forgets its token, then Redis deletes the
\* key if it still holds that token; LockError, LockNotOwnedError and
\* ConnectionError are RedisErrors
lock_release(key, p, up) ==
    IF ~up THEN [raised |-> "RedisError", key |-> key]
    ELSE IF key # None /\ Val(key).token = p THEN [raised |-> "", key |-> None]
    ELSE [raised |-> "RedisError", key |-> key]

\* release_distributed_lock(lock)
ReleaseCall(p) ==
    /\ locks.obj[p] = "held"
    /\ \E up \in BOOLEAN :
         LET out == lock_release(locks.key, p, up)
         IN  locks' = [locks EXCEPT
                 !.key = out.key,
                 !.call[p] = NoCall,
                 !.obj[p] = "none",
                 !.result[p] = IF out.raised # "" THEN "False" ELSE "True"]
    /\ NoLockFrame

\* The task that holds the lock stops for good without releasing it
HolderCrash(p) ==
    /\ locks.obj[p] = "held"
    /\ locks' = [locks EXCEPT !.obj[p] = "crashed", !.call[p] = NoCall]
    /\ NoLockFrame

\* Redis drops the key when its PX time is over; the sleeping calls wake up
LockTick ==
    /\ \A p \in Procs : locks.call[p].at # "wake"
    /\ locks' = [locks EXCEPT
           !.key = IF @ = None \/ Val(@).ttl = 1 THEN None
                   ELSE Some([Val(@) EXCEPT !.ttl = @ - 1]),
           !.call = [p \in Procs |->
                       IF @[p].at = "sleep"
                       THEN [@[p] EXCEPT !.at = "wake", !.waited = @ + 1]
                       ELSE @[p]]]
    /\ NoLockFrame

----------------------------------------------------------------------------
(* auth: jwt.py, crud.py and router.py *)

Emails == {"e1", "e2"}
Passwords == {"pw1", "pw2"}

\* The salts bcrypt may draw for one hash
Salts == {"s1", "s2"}

\* pwd_context.hash(password): a bcrypt hash carries the salt drawn for it
get_password_hash(password, salt) == [password |-> password, salt |-> salt]

\* pwd_context.verify(plain_password, hashed_password)
verify_password(plain_password, hashed_password) ==
    hashed_password.password = plain_password

\* Table users: is_active and is_superuser take their defaults
User(id, email, hashed_password) ==
    [id |-> id, email |-> email, hashed_password |-> hashed_password,
     is_active |-> TRUE, is_superuser |-> FALSE]

get_user_by_email(us, email) ==
    scalar_one_or_none(SelectSeq(us, LAMBDA u : u.email = email)).value

create_user(us, email, hashed_password) ==
    Append(us, User(Len(us) + 1, email, hashed_password))

\* jwt.encode of {"sub": str(user.id), "email": user.email}
create_access_token(user) == [sub |-> user.id, email |-> user.email]

\* Everything but the users and the /auth requests
NoAuthFrame ==
    UNCHANGED <<now, settings, store, cache, pc, req, loc, resp, sweep, swept,
                clicks, queue, worker, granted, deleted, removed_at, locks>>

\* POST /api/v1/auth/register
Register(p, emails, passwords) ==
    /\ \E email \in emails, password \in passwords, salt \in Salts :
         LET r == [NoAuth EXCEPT !.op = "register", !.email = email,
                                 !.password = password]
             existing_user == get_user_by_email(users, email)
         IN  IF existing_user # None
             THEN /\ auth' = [auth EXCEPT ![p] =
                                [r EXCEPT !.status = 400,
                                          !.detail = "Email already registered"]]
                  /\ UNCHANGED users
             ELSE /\ users' = create_user(users, email,
                                          get_password_hash(password, salt))
                  /\ auth' = [auth EXCEPT ![p] = [r EXCEPT !.status = 201]]
    /\ NoAuthFrame

\* The comparison of login: a hash made now against the stored hash
password_matches(password, salt, hashed_password) ==
    get_password_hash(password, salt) = hashed_password

\* POST /api/v1/auth/login
Login(p, emails, passwords) ==
    /\ \E email \in emails, password \in passwords, salt \in Salts :
         LET r == [NoAuth EXCEPT !.op = "login", !.email = email,
                                 !.password = password]
             user == get_user_by_email(users, email)
             unauthorized == [r EXCEPT !.status = 401,
                                       !.detail = "Incorrect email or password"]
         IN  auth' = [auth EXCEPT ![p] =
                 IF user = None \/ ~Val(user).is_active
                 THEN unauthorized
                 ELSE IF ~password_matches(password, salt, Val(user).hashed_password)
                 THEN unauthorized
                 ELSE [r EXCEPT !.status = 200,
                                !.access_token = Some(create_access_token(Val(user))),
                                !.token_type = "bearer"]]
    /\ UNCHANGED users
    /\ NoAuthFrame

----------------------------------------------------------------------------
(* The cache-aside path: client p1 creates, deletes and resolves one custom  *)
(* slug, any client resolves it concurrently, the sweeper and the clock run. *)
(* The click queue cannot be reached.                                        *)

Next ==
    \/ CreateRequest("p1", Urls, {Some(SlugA)}, DayInputs)
    \/ AllocCustom("p1")
    \/ DeleteRequest("p1", {SlugA})
    \/ \E p \in Procs : RedirectRequest(p, {SlugA}, {NoHeaders}, QueueDown)
    \/ \E p \in Procs : RedirectStore(p)
    \/ \E p \in Procs : RedirectCache(p, QueueDown)
    \/ SweepStore
    \/ SweepCache
    \/ Tick

Spec == Init /\ [][Next]_vars

----------------------------------------------------------------------------
(* The same path with a single client: the requests come one after another. *)

NextSeq ==
    \/ CreateRequest("p1", Urls, {Some(SlugA)}, DayInputs)
    \/ AllocCustom("p1")
    \/ DeleteRequest("p1", {SlugA})
    \/ RedirectRequest("p1", {SlugA}, {NoHeaders}, QueueDown)
    \/ RedirectStore("p1")
    \/ RedirectCache("p1", QueueDown)
    \/ SweepStore
    \/ SweepCache
    \/ Tick

SpecSeq == Init /\ [][NextSeq]_vars

----------------------------------------------------------------------------
(* Creation: every client creates (random or custom slug) and deletes. *)

NextCreate ==
    \/ \E p \in Procs : CreateRequest(p, Urls, CustomInputs, {None})
    \/ \E p \in Procs : AllocCustom(p)
    \/ \E p \in Procs : AllocRandom(p)
    \/ \E p \in Procs : DeleteRequest(p, PathSlugs)

SpecCreate == Init /\ [][NextCreate]_vars

----------------------------------------------------------------------------
(* The allocator called directly, under any configured slug_max_attempts. *)

SlugFour == <<"a", "Z", "7", "b">>
SlugFourLF == <<"a", "Z", "7", "b", LF>>
SlugThreeLF == <<"a", "Z", "7", LF>>

AllocCustoms ==
    {None, Some(<<>>), Some(SlugA), Some(SlugFour), Some(SlugFourLF),
     Some(SlugThreeLF), Some(SlugDash),
     Some(Repeat("a", MinCustomLen - 1)), Some(Repeat("a", MaxCustomLen + 1))}

InitAlloc ==
    /\ InitCommon
    /\ settings \in {[DefaultSettings EXCEPT !.slug_max_attempts = n] :
                        n \in 1..MaxCfgAttempts}

NextAlloc ==
    \/ AllocateCall("p1", {"u1"}, AllocCustoms, {None})
    \/ AllocCustom("p1")
    \/ AllocRandom("p1")
    \/ DeleteRequest("p1", PathSlugs \cup {SlugFour, SlugFourLF})

SpecAlloc == InitAlloc /\ [][NextAlloc]_vars

----------------------------------------------------------------------------
(* Redirects with analytics: client p1 creates one custom slug, any client  *)
(* resolves it, the click job is queued or not, and the worker takes jobs.  *)

NextRedirect ==
    \/ CreateRequest("p1", {"u1"}, {Some(SlugA)}, {None})
    \/ AllocCustom("p1")
    \/ \E p \in Procs : RedirectRequest(p, {SlugA}, Headers, QueueUpOrDown)
    \/ \E p \in Procs : RedirectStore(p)
    \/ \E p \in Procs : RedirectCache(p, QueueUpOrDown)
    \/ ProcessClick

SpecRedirect == Init /\ [][NextRedirect]_vars

----------------------------------------------------------------------------
(* Click analytics: client p1 creates, resolves and deletes one custom slug, *)
(* records clicks for it and reads its statistics; the worker, the sweeper  *)
(* and the clock run.                                                       *)

NextClicks ==
    \/ CreateRequest("p1", {"u1"}, {Some(SlugA)}, {Some(1)})
    \/ AllocCustom("p1")
    \/ DeleteRequest("p1", {SlugA})
    \/ RecordClickCall("p1", {SlugA})
    \/ StatsRequest("p1", {SlugA})
    \/ RedirectRequest("p1", {SlugA}, {SomeHeaders}, QueueUpOrDown)
    \/ RedirectStore("p1")
    \/ RedirectCache("p1", QueueUpOrDown)
    \/ ProcessClick
    \/ SweepStore
    \/ SweepCache
    \/ Tick

SpecClicks == Init /\ [][NextClicks]_vars

----------------------------------------------------------------------------
(* Creation with a random slug under any configured slug_length. *)

SlugLengths == {MinCustomLen, SLUG_LENGTH, MaxCustomLen}

InitLength ==
    /\ InitCommon
    /\ settings \in {[DefaultSettings EXCEPT !.slug_length = n] : n \in SlugLengths}

NextLength ==
    \/ \E p \in Procs : CreateRequest(p, Urls, {None}, {None})
    \/ \E p \in Procs : AllocRandom(p)
    \/ \E p \in Procs : DeleteRequest(p, PathSlugs)

SpecLength == InitLength /\ [][NextLength]_vars

----------------------------------------------------------------------------
(* Repeated creation: client p1 creates mappings for two URLs, with a random *)
(* or a custom slug and with or without expiry, while the clock runs.        *)

NextDedup ==
    \/ CreateRequest("p1", Urls, {None, Some(SlugFour)}, DayInputs)
    \/ AllocCustom("p1")
    \/ AllocRandom("p1")
    \/ Tick

SpecDedup == Init /\ [][NextDedup]_vars

----------------------------------------------------------------------------
(* The sweeper: client p1 creates two custom slugs, with or without expiry, *)
(* and resolves them, which fills the cache; the sweeper and the clock run. *)
(* The click queue cannot be reached.                                       *)

NextSweep ==
    \/ CreateRequest("p1", {"u1"}, {Some(SlugA)}, DayInputs)
    \/ CreateRequest("p1", {"u2"}, {Some(SlugFour)}, {Some(1)})
    \/ AllocCustom("p1")
    \/ RedirectRequest("p1", {SlugA, SlugFour}, {NoHeaders}, QueueDown)
    \/ RedirectStore("p1")
    \/ RedirectCache("p1", QueueDown)
    \/ SweepStore
    \/ SweepCache
    \/ Tick

SpecSweep == Init /\ [][NextSweep]_vars

----------------------------------------------------------------------------
(* The distributed lock: two tasks acquire, release and may stop while      *)
(* holding it. An attempt that is due is made and the lock clock goes on.   *)

NextLock ==
    \/ \E p \in Procs : AcquireCall(p, 1..MaxLease, 0..MaxBlock)
    \/ \E p \in Procs : AcquireRetry(p)
    \/ \E p \in Procs : ReleaseCall(p)
    \/ \E p \in Procs : HolderCrash(p)
    \/ LockTick

SpecLock ==
    /\ Init /\ [][NextLock]_vars
    /\ WF_vars(LockTick)
    /\ \A p \in Procs : WF_vars(AcquireRetry(p))

----------------------------------------------------------------------------
(* Deletion: client p1 creates two custom slugs, records clicks for them and *)
(* deletes them or a slug that was never stored.                             *)

NextDelete ==
    \/ CreateRequest("p1", {"u1"}, {Some(SlugA)}, {None})
    \/ CreateRequest("p1", {"u2"}, {Some(SlugFour)}, {None})
    \/ AllocCustom("p1")
    \/ RecordClickCall("p1", {SlugA, SlugFour})
    \/ DeleteRequest("p1", {SlugA, SlugFour, SlugB})

SpecDelete == Init /\ [][NextDelete]_vars

----------------------------------------------------------------------------
(* Authentication: two clients register and log in. *)

NextAuth ==
    \/ \E p \in Procs : Register(p, Emails, Passwords)
    \/ \E p \in Procs : Login(p, Emails, Passwords)

SpecAuth == Init /\ [][NextAuth]_vars

----------------------------------------------------------------------------
(* The read paths: client p1 creates one custom slug with or without an     *)
(* expiry, resolves it, reads its information and lists the mappings; the   *)
(* sweeper and the clock run.                                               *)

NextRead ==
    \/ CreateRequest("p1", Urls, {Some(SlugA)}, DayInputs)
    \/ AllocCustom("p1")
    \/ RedirectRequest("p1", {SlugA}, {NoHeaders}, QueueDown)
    \/ RedirectStore("p1")
    \/ RedirectCache("p1", QueueDown)
    \/ InfoRequest("p1", {SlugA})
    \/ ListRequest("p1", Pages, Limits)
    \/ SweepStore
    \/ SweepCache
    \/ Tick

SpecRead == Init /\ [][NextRead]_vars

----------------------------------------------------------------------------
(* Properties *)

\* The task p took the step
Stepped(p) == <<pc[p], req[p], loc[p], resp[p]>> # <<pc'[p], req'[p], loc'[p], resp'[p]>>

\* The step was a call of add_slug_to_database by p
Attempted(p) == loc'[p].calls = loc[p].calls + 1

\* p's request ended with the slug returned
Succeeded(r) == r.raised = "" /\ r.data # None

UniqueSlugs ==
    \A i, j \in 1..Len(store) : store[i].slug = store[j].slug => i = j

GrantedOnce == \A s \in DOMAIN granted : granted[s] <= 1

AtomicReserve ==
    \A p \in Procs :
        Attempted(p) =>
            LET slug == Val(loc'[p].tried)
            IN  IF RowsWithSlug(store, slug) = <<>>
                THEN /\ Len(store') = Len(store) + 1
                     /\ store'[Len(store')].slug = slug
                     /\ pc'[p] = "done" /\ Succeeded(resp'[p])
                     /\ resp'[p].data = Some(slug)
                ELSE /\ store' = store
                     /\ ~(pc'[p] = "done" /\ Succeeded(resp'[p]))

\* C1: under any interleaving of create requests (random or custom slug) and
\* deletions, an insert succeeds exactly when no row holds the slug, so of two
\* allocators trying the same slug one succeeds; no two rows of the store share
\* a slug; and no slug is held by two successful allocations at once.
C1_AtomicUniqueReservation ==
    /\ [](UniqueSlugs /\ GrantedOnce)
    /\ [][AtomicReserve]_vars

\* C1 witness: both clients asked for the same custom slug with different
\* URLs; one got it, the other got the conflict, and one row holds the slug.
C1_Witness ==
    /\ pc["p1"] = "done" /\ pc["p2"] = "done"
    /\ req["p1"].custom_slug = Some(SlugA) /\ req["p2"].custom_slug = Some(SlugA)
    /\ req["p1"].long_url # req["p2"].long_url
    /\ loc["p1"].tried = Some(SlugA) /\ loc["p2"].tried = Some(SlugA)
    /\ resp["p1"].status = 200 /\ resp["p1"].data = Some(SlugA)
    /\ resp["p2"].status = 409
    /\ Len(RowsWithSlug(store, SlugA)) = 1

----------------------------------------------------------------------------
(* The redirect path *)

\* The step in which the redirect of p gets its answer: the read of the cache
\* when the request begins, or the read of the store
Resolved(p) ==
    /\ Stepped(p)
    /\ req'[p].op = "redirect"
    /\ pc[p] \in {"idle", "done", "db"}
    /\ ~(pc'[p] = "db")

ExpiredRow(slug) ==
    \E i \in 1..Len(store) : store[i].slug = slug /\ is_expired(store[i], now)

\* C2: a redirect of a slug with a live mapping in the store gets the long_url
\* stored for it, from the cache or from the store (the store answering).
C2_ResolveReturnsStored ==
    [][\A p \in Procs :
          Resolved(p) /\ ~loc'[p].db_failed =>
              LET live == get_long_url_by_slug(store, Val(req'[p].slug), now)
              IN  live # None => loc'[p].long_url = live]_vars

\* C3: once expires_at of the stored mapping has passed, a redirect of its
\* slug is answered 404, whatever the cache holds.
C3_ExpiredIsNotFound ==
    [][\A p \in Procs :
          Resolved(p) /\ ExpiredRow(Val(req'[p].slug)) =>
              loc'[p].long_url = None /\ resp'[p].status = 404]_vars

\* C4: after DELETE removed the mapping and until the slug is allocated again,
\* a redirect of the slug is answered 404.
C4_DeletedIsNotFound ==
    [][\A p \in Procs :
          Resolved(p) /\ Val(req'[p].slug) \in deleted =>
              loc'[p].long_url = None /\ resp'[p].status = 404]_vars

\* C10: a redirect during which the store failed is answered with a server
\* error, never with 404.
C10_StoreFailureIsServerError ==
    \A p \in Procs :
        pc[p] = "done" /\ req[p].op = "redirect" /\ loc[p].db_failed =>
            resp[p].status >= 500

\* What a redirect that reads the store must do with a failing cache: answer
\* from the store, and answer 302 after the write-back, failed or not
StoreAloneStep(p) ==
    LET slug == Val(req'[p].slug)
        live == get_long_url_by_slug(store, slug, now)
    IN  /\ pc[p] \in {"idle", "done"} => pc'[p] = "db"
        /\ pc[p] = "db" /\ ~loc'[p].db_failed =>
              IF live = None
              THEN pc'[p] = "done" /\ resp'[p] = not_found_response
              ELSE pc'[p] = "cache" /\ loc'[p].long_url = live
        /\ pc[p] = "cache" =>
              /\ pc'[p] = "done"
              /\ resp'[p] = redirect_response(Val(loc[p].long_url))
              /\ cache' = cache

\* C9: when every cache operation of a redirect fails, the redirect answers
\* with the long_url the store holds for a live mapping and with 404 when the
\* store holds none, never with an error of the cache; and the steps of a
\* create request neither read nor write the cache.
C9_CacheFailureDegrades ==
    [][\A p \in Procs :
          /\ Stepped(p) /\ req'[p].op = "redirect" /\ ~loc'[p].cache_ok
                => StoreAloneStep(p)
          /\ Stepped(p) /\ req'[p].op = "create" => cache' = cache]_vars

\* C9 witness: a redirect whose cache operations all failed was answered 302
\* with the long_url of the live mapping in the store.
C9_Witness ==
    \E p \in Procs :
        /\ pc[p] = "done" /\ req[p].op = "redirect"
        /\ ~loc[p].cache_ok /\ ~loc[p].db_failed
        /\ resp[p].status = 302
        /\ resp[p].long_url = get_long_url_by_slug(store, Val(req[p].slug), now)

----------------------------------------------------------------------------
(* The allocator *)

\* C5: a step of the allocator for a well-formed custom slug that the store
\* holds ends the call with SlugAlreadyExistsError after that one insert, with
\* the custom slug as the only slug tried and the store as it was.
C5_CustomConflictOnce ==
    [][\A p \in Procs :
          /\ Stepped(p) /\ pc[p] = "alloc"
          /\ req[p].custom_slug # None
          /\ FullMatch(Val(req[p].custom_slug))
          /\ RowsWithSlug(store, Val(req[p].custom_slug)) # <<>>
          => /\ pc'[p] = "done"
             /\ resp'[p].raised = "SlugAlreadyExistsError"
             /\ resp'[p].data = None
             /\ loc'[p].calls = 1
             /\ loc'[p].tried = req[p].custom_slug
             /\ store' = store]_vars

\* C5 witness: a call with a custom slug of four characters that the store
\* already held ended with the conflict after one insert.
C5_Witness ==
    /\ pc["p1"] = "done" /\ req["p1"].op = "allocate"
    /\ req["p1"].custom_slug = Some(SlugFour)
    /\ resp["p1"].raised = "SlugAlreadyExistsError"
    /\ loc["p1"].calls = 1
    /\ Len(RowsWithSlug(store, SlugFour)) = 1

\* C6: a call with a custom slug that is not 4 to 12 alphanumeric characters
\* ends with the format error (ValueError in the code) before any insert, and
\* a custom slug of 4 to 12 alphanumeric characters passes the format check.
C6_InvalidSlugRejected ==
    \A p \in Procs :
        pc[p] = "done" /\ req[p].op = "allocate" /\ req[p].custom_slug # None =>
            IF FullMatch(Val(req[p].custom_slug))
            THEN resp[p].raised # "ValueError"
            ELSE resp[p].raised = "ValueError" /\ loc[p].calls = 0

\* C7: a call without custom slug makes at most settings.slug_max_attempts
\* inserts, returns the first slug that did not collide with is_custom false,
\* and fails exactly when that many inserts collided.
C7_AttemptsWithinConfigured ==
    \A p \in Procs :
        req[p].op = "allocate" /\ req[p].custom_slug = None =>
            /\ loc[p].calls <= settings.slug_max_attempts
            /\ pc[p] = "done" =>
                  IF Succeeded(resp[p])
                  THEN resp[p].custom_slug = FALSE /\ resp[p].data = loc[p].tried
                  ELSE loc[p].calls = settings.slug_max_attempts

\* A create request without custom slug whose inserts all collided
Exhausted(p) ==
    /\ pc[p] = "done" /\ req[p].op = "create"
    /\ req[p].custom_slug = None
    /\ resp[p].raised = "SlugAlreadyExistsError"

\* A create request whose custom slug was taken
CustomTaken(p) ==
    /\ pc[p] = "done" /\ req[p].op = "create"
    /\ req[p].custom_slug # None
    /\ resp[p].raised = "SlugAlreadyExistsError"

\* C8: a create request that exhausted its attempts is answered with a server
\* error, a status other than that of the answer for a taken custom slug.
C8_ExhaustedIsServerError ==
    \A p \in Procs :
        Exhausted(p) =>
            /\ resp[p].status >= 500
            /\ \A q \in Procs : CustomTaken(q) => resp[q].status # resp[p].status

----------------------------------------------------------------------------
(* Click analytics *)

\* The request of p ended in this step as a redirect that resolved its slug
ResolvedStep(p) ==
    /\ Stepped(p) /\ pc'[p] = "done"
    /\ req'[p].op = "redirect" /\ loc'[p].long_url # None

\* C11: a redirect that resolved its slug answers 302 to the resolved long_url
\* whether or not its click job was queued; a job that was not queued leaves
\* the queue as it was, and the step changes neither the store nor the clicks
\* and the cache only by the entry of the resolved slug.
C11_EnqueueFailureSwallowed ==
    [][\A p \in Procs :
          ResolvedStep(p) =>
              /\ resp'[p] = redirect_response(Val(loc'[p].long_url))
              /\ ~loc'[p].enqueued => queue' = queue
              /\ store' = store /\ clicks' = clicks
              /\ cache' \in {cache,
                             cache_url(cache, Val(req'[p].slug), Val(loc'[p].long_url),
                                       TRUE, now).cache}]_vars

\* C11 witness: two redirects of one slug, the click job of the first queued
\* and that of the second not, ended with the same 302 response.
C11_Witness ==
    /\ pc["p1"] = "done" /\ pc["p2"] = "done"
    /\ req["p1"].op = "redirect" /\ req["p2"] = req["p1"]
    /\ loc["p1"].enqueued /\ ~loc["p2"].enqueued
    /\ resp["p1"].status = 302 /\ resp["p2"] = resp["p1"]

----------------------------------------------------------------------------
(* Creation *)

\* The step is the arrival of a valid create request of p
CreateStep(p) ==
    /\ Stepped(p) /\ Idle(p)
    /\ req'[p].op = "create" /\ ShortenUrlRequestValid(req'[p])

\* The rows of st that map to long_url and are not expired at t
LiveRowsWithUrl(st, long_url, t) ==
    SelectSeq(RowsWithUrl(st, long_url), LAMBDA r : ~is_expired(r, t))

\* C12: a create request for a long_url that a non-expired row of the store
\* maps to is answered 200 with the slug of such a row and leaves the store as
\* it was.
C12_DedupReturnsExisting ==
    [][\A p \in Procs :
          CreateStep(p)
          /\ LiveRowsWithUrl(store, Val(req'[p].long_url), now) # <<>>
          => /\ pc'[p] = "done" /\ resp'[p].status = 200
             /\ \E i \in 1..Len(store) :
                   /\ Some(store[i].slug) = resp'[p].data
                   /\ store[i].long_url = Val(req'[p].long_url)
                   /\ ~is_expired(store[i], now)
             /\ store' = store]_vars

\* C13: a create request with a well-formed custom slug that the store does
\* not hold does not end before the insert of that slug, and the insert ends it
\* with 200, that slug and custom_slug true, the store then mapping the slug to
\* the requested long_url.
C13_CustomSlugGranted ==
    [][\A p \in Procs :
          /\ CreateStep(p) /\ req'[p].custom_slug # None
             /\ RowsWithSlug(store, Val(req'[p].custom_slug)) = <<>>
             => pc'[p] = "alloc"
          /\ Stepped(p) /\ pc[p] = "alloc" /\ req[p].op = "create"
             /\ req[p].custom_slug # None
             /\ RowsWithSlug(store, Val(req[p].custom_slug)) = <<>>
             => /\ pc'[p] = "done" /\ resp'[p].status = 200
                /\ resp'[p].data = req[p].custom_slug /\ resp'[p].custom_slug
                /\ get_long_url_by_slug_from_database(store', Val(req[p].custom_slug))
                      # None]_vars

\* C14: the slug in the answer to a create request without custom slug has
\* settings.slug_length characters, all of them alphanumeric.
C14_GeneratedSlugShape ==
    \A p \in Procs :
        /\ pc[p] = "done" /\ req[p].op = "create" /\ req[p].custom_slug = None
        /\ resp[p].status = 200
        => /\ Len(Val(resp[p].data)) = settings.slug_length
           /\ AllAlnum(Val(resp[p].data))

----------------------------------------------------------------------------
(* Expiry *)

\* C15: a store lookup for a slug whose row is expired ends the redirect with
\* 404 and leaves the row in the store; for a row that is not expired, a row
\* with no expires_at among them, the lookup resolves the slug unless the
\* store failed; and a row with no expires_at is never expired.
C15_LazyExpiryOnStorePath ==
    /\ [](\A i \in 1..Len(store) :
             store[i].expires_at = None => ~is_expired(store[i], now))
    /\ [][\A p \in Procs :
             Stepped(p) /\ pc[p] = "db" /\ RowsWithSlug(store, Val(req[p].slug)) # <<>>
             => LET row == RowsWithSlug(store, Val(req[p].slug))[1]
                IN  /\ store' = store
                    /\ row.expires_at # None /\ Val(row.expires_at) < now
                       => pc'[p] = "done" /\ resp'[p].status = 404
                    /\ (row.expires_at = None \/ Val(row.expires_at) >= now)
                       /\ ~loc'[p].db_failed
                       => pc'[p] = "cache" /\ loc'[p].long_url = Some(row.long_url)]_vars

\* C15 witness: a redirect ended with 404 from the store, which did not fail
\* and still holds the expired row of the slug.
C15_Witness ==
    /\ pc["p1"] = "done" /\ req["p1"].op = "redirect" /\ resp["p1"].status = 404
    /\ ~loc["p1"].db_failed
    /\ RowsWithSlug(store, Val(req["p1"].slug)) # <<>>
    /\ ExpiredRow(Val(req["p1"].slug))

----------------------------------------------------------------------------
(* Click statistics and the recorder *)

\* The last request of p was a redirect of slug that ended with 302
Redirected(p, slug) ==
    /\ pc[p] = "done" /\ req[p].op = "redirect" /\ req[p].slug = Some(slug)
    /\ resp[p].status = 302

\* C16: statistics read right after a redirect of the slug ended with 302,
\* the mapping still stored, report at least that one click.
C16_ClicksCountRedirects ==
    [][\A p \in Procs :
          /\ Stepped(p) /\ req'[p].op = "stats" /\ pc'[p] = "done"
          /\ Redirected(p, Val(req'[p].slug))
          /\ RowsWithSlug(store, Val(req'[p].slug)) # <<>>
          => resp'[p].total_clicks >= 1]_vars

\* The worker took a job in this step
JobTaken == queue # <<>> /\ queue' = Tail(queue) /\ worker'.job = Some(Head(queue))

\* C17: when the worker takes a job whose slug has a row in the store, one
\* click with the job's slug, ip_address, user_agent and referer is added to
\* the table, whatever the user-agent parse and the geo lookup gave.
C17_RecorderPersistsClick ==
    [][JobTaken /\ RowsWithSlug(store, Head(queue).slug) # <<>>
       => /\ Len(clicks') = Len(clicks) + 1
          /\ LET c == clicks'[Len(clicks')]
                 job == Head(queue)
             IN  /\ c.slug = job.slug /\ c.ip_address = job.ip_address
                 /\ c.user_agent = job.user_agent /\ c.referer = job.referer]_vars

\* The slugs that have a row in the store
StoredSlugs == {store[i].slug : i \in 1..Len(store)}

\* C18: every click in the table belongs to a slug that has a row in the
\* store; a step that removes rows from the store (DELETE or the sweeper)
\* removes the clicks of their slugs and no other click; and a job that the
\* worker takes for a slug without a row adds no click.
C18_NoOrphanClicks ==
    /\ [](\A i \in 1..Len(clicks) : clicks[i].slug \in StoredSlugs)
    /\ [][/\ store' # store /\ Len(store') < Len(store)
             => clicks' = SelectSeq(clicks, LAMBDA c : c.slug \in
                                       {store'[i].slug : i \in 1..Len(store')})
          /\ JobTaken /\ Head(queue).slug \notin StoredSlugs
             => clicks' = clicks]_vars

\* C18 witness: a DELETE removed a row that had a click, the worker has taken
\* a job for the slug, and the table holds no click.
C18_Witness ==
    /\ SlugA \in deleted /\ SlugA \notin StoredSlugs
    /\ resp["p1"].status = 200 /\ req["p1"].op = "delete"
    /\ loc["p1"].loaded > 0
    /\ worker.job # None /\ Val(worker.job).slug = SlugA
    /\ queue = <<>> /\ clicks = <<>>

----------------------------------------------------------------------------
(* The sweeper *)

\* The step is the query, delete and commit of a sweeper run
SweepStoreStep == sweep = <<>> /\ sweep' # <<>>

\* The step is one cache deletion of a sweeper run
SweepCacheStep == sweep # <<>> /\ sweep' = Tail(sweep)

\* C19: the store step of a sweeper run removes exactly the rows whose
\* expires_at is before the time of the query, keeps every other row, and lists
\* the slug of every removed row for the cache; each cache step that does not
\* fail leaves no cache entry for its slug.
C19_SweeperRemovesExpired ==
    [][/\ SweepStoreStep
          => /\ \A i \in 1..Len(store) :
                   IF store[i].expires_at # None /\ Val(store[i].expires_at) < now
                   THEN /\ \A j \in 1..Len(store') : store'[j] # store[i]
                        /\ \E k \in 1..Len(sweep') : sweep'[k] = store[i].slug
                   ELSE \E j \in 1..Len(store') : store'[j] = store[i]
             /\ Len(store') + Len(sweep') = Len(store)
       /\ SweepCacheStep /\ swept'.failed = swept.failed
          => \A e \in cache' : e.slug # Head(sweep)]_vars

\* C19 witness: a run has ended that deleted two rows and removed the cache
\* entries of both slugs, and a row without expires_at is still stored.
C19_Witness ==
    /\ sweep = <<>> /\ swept.result # None
    /\ swept.deleted_count = 2 /\ swept.removed = 2
    /\ \E i \in 1..Len(store) : store[i].expires_at = None

\* C20: a cache step of a sweeper run that fails changes neither the store
\* nor the cache and the run goes on to the next slug; a run that is over has
\* returned its deleted_count.
C20_SweeperSurvivesCacheFailure ==
    /\ [](sweep = <<>> /\ swept # NoRun => swept.result = Some(swept.deleted_count))
    /\ [][SweepCacheStep
          => /\ store' = store
             /\ swept'.deleted_count = swept.deleted_count
             /\ swept'.failed > swept.failed => cache' = cache]_vars

\* C20 witness: a run that deleted two rows has ended, one of its two cache
\* deletions failed and left its entry, and the store holds no row.
C20_Witness ==
    /\ sweep = <<>> /\ swept.failed = 1 /\ swept.removed = 1
    /\ swept.result = Some(2) /\ store = <<>> /\ cache # {}

----------------------------------------------------------------------------
(* Staleness of the cache after a removal *)

\* A redirect of p that looks at the cache or at the store in this step ends
\* in it (the step that only writes the cache back is left out)
RedirectEnds(p) ==
    Stepped(p) /\ pc[p] # "cache" /\ pc'[p] = "done" /\ req'[p].op = "redirect"

\* The row of slug was removed more than one cache time to live ago and the
\* slug has not been allocated since
RemovedLongAgo(slug) ==
    /\ slug \notin StoredSlugs
    /\ slug \in DOMAIN removed_at
    /\ now > removed_at[slug] + redis_ttl

\* C21: a redirect of a slug whose row was removed from the store (by the
\* sweeper or by DELETE) more than one cache time to live ago, and that has
\* not been allocated again, answers 404 when it reads the cache or the store
\* after that time; this also holds when a redirect that read the store before
\* the removal writes the cache after it.
C21_StaleCacheBounded ==
    [][\A p \in Procs :
         RedirectEnds(p) /\ RemovedLongAgo(Val(req'[p].slug))
         => resp'[p].status = 404]_vars

----------------------------------------------------------------------------
(* The distributed lock *)

\* The call of acquire_distributed_lock of p returns in this step
AcquireReturns(p) ==
    /\ locks.obj[p] = "none" /\ locks'.call[p].at = "none"
    /\ <<locks'.obj[p], locks'.call[p], locks'.result[p]>>
          # <<locks.obj[p], locks.call[p], locks.result[p]>>

\* The call of release_distributed_lock of p returns in this step
ReleaseReturns(p) == locks.obj[p] = "held" /\ locks'.obj[p] = "none"

\* The key is the one task p set and never released
KeyOf(p) == locks.key # None /\ Val(locks.key).token = p

\* C22: a call of acquire_distributed_lock never sleeps longer than its
\* blocking timeout and returns the lock or None, the lock exactly when the
\* key is now its own with the full lease; a failure of Redis during acquire
\* or release gives None or False, never an exception; an attempt that
\* reaches Redis while no key is set gets the lock; and the key of a holder
\* that stopped without releasing is dropped once its lease is over.
C22_LockBoundedAndLeased ==
    /\ [](\A p \in Procs : locks.call[p].waited <= locks.call[p].blocking_timeout)
    /\ [][\A p \in Procs :
            /\ AcquireReturns(p)
               => /\ locks'.result[p] \in {"lock", "None"}
                  /\ locks'.result[p] = "lock"
                     <=> /\ locks'.obj[p] = "held"
                         /\ locks'.key = Some([token |-> p,
                                               ttl |-> locks'.call[p].timeout])
                  /\ locks.key = None
                     => \/ locks'.result[p] = "lock"
                        \/ locks' = [locks EXCEPT !.call[p] = NoCall,
                                                  !.result[p] = "None"]
            /\ ReleaseReturns(p)
               => /\ locks'.result[p] \in {"True", "False"}
                  /\ locks'.result[p] = "True" <=> KeyOf(p) /\ locks'.key = None
                  /\ locks'.result[p] = "False" => locks'.key = locks.key]_vars
    /\ \A p \in Procs : (locks.obj[p] = "crashed" /\ KeyOf(p)) ~> ~KeyOf(p)

\* C22 witness: p1 stopped while holding the lock, and p2, whose call slept
\* until the lease of p1 was over, holds it now.
C22_Witness ==
    /\ locks.obj["p1"] = "crashed"
    /\ locks.obj["p2"] = "held" /\ locks.result["p2"] = "lock"
    /\ locks.call["p2"].waited > 0
    /\ KeyOf("p2")

----------------------------------------------------------------------------
(* Deletion *)

\* The rows of a table that do not belong to slug, in their order
Others(rows, slug) == SelectSeq(rows, LAMBDA r : r.slug # slug)

\* C23: a DELETE of a slug that has no row answers 404 and leaves the store
\* and the clicks as they were; a DELETE of a stored slug answers 200, removes
\* the one row of that slug and the clicks of that slug and leaves every other
\* row and click; a DELETE of a slug that was deleted and not allocated since
\* answers 404.
C23_DeleteRemovesExactlyOne ==
    [][\A p \in Procs :
         Stepped(p) /\ req'[p].op = "delete"
         => LET slug == Val(req'[p].slug)
            IN  /\ slug \notin StoredSlugs
                   => /\ resp'[p].status = 404
                      /\ store' = store /\ clicks' = clicks
                /\ slug \in StoredSlugs
                   => /\ resp'[p].status = 200
                      /\ Len(store') = Len(store) - 1
                      /\ \A i \in 1..Len(store') : store'[i].slug # slug
                      /\ Others(store', slug) = Others(store, slug)
                      /\ \A i \in 1..Len(clicks') : clicks'[i].slug # slug
                      /\ Others(clicks', slug) = Others(clicks, slug)
                /\ slug \in deleted => resp'[p].status = 404]_vars

\* C23 witness: the DELETE of a stored slug that had a click has answered 200
\* and a row of another slug is still stored.
C23_Witness ==
    /\ pc["p1"] = "done" /\ req["p1"].op = "delete" /\ resp["p1"].status = 200
    /\ loc["p1"].loaded > 0
    /\ store # <<>> /\ Val(req["p1"].slug) \notin StoredSlugs

----------------------------------------------------------------------------
(* Authentication *)

\* C24: a login with the e-mail and the password of a registered user answers
\* 200 with a bearer token; a login with an e-mail that is not registered or
\* with another password answers 401.
C24_LoginAfterRegister ==
    [][\A p \in Procs :
         auth'[p] # auth[p] /\ auth'[p].op = "login"
         => LET a == auth'[p]
                user == get_user_by_email(users, a.email)
                known == user # None
                         /\ verify_password(a.password, Val(user).hashed_password)
            IN  /\ known => /\ a.status = 200
                            /\ a.access_token # None
                            /\ a.token_type = "bearer"
                /\ ~known => a.status = 401]_vars

----------------------------------------------------------------------------
(* Cache-aside population *)

\* The entries of the cache for slug
EntriesOf(c, slug) == {e \in c : e.slug = slug}

\* C25: when a redirect that missed the cache and found a live row writes the
\* cache and cache_url returns True, the cache holds exactly one entry for the
\* slug, with the URL read from the store and redis_ttl to live; the clock
\* drops no entry before its time is over; and a redirect that finds an entry
\* for its slug while Redis answers is served from it, 302 to the cached URL,
\* without a step that reads the store.
C25_MissPopulatesCache ==
    [][/\ \A p \in Procs :
            /\ Stepped(p) /\ pc[p] = "cache" /\ loc'[p].cached
               => EntriesOf(cache', Val(req[p].slug))
                    = {[slug |-> Val(req[p].slug), long_url |-> Val(loc[p].long_url),
                        exp |-> now + redis_ttl]}
            /\ Stepped(p) /\ Idle(p) /\ req'[p].op = "redirect"
               => \A e \in EntriesOf(cache, Val(req'[p].slug)) :
                     \/ /\ pc'[p] = "done" /\ loc'[p].hit
                        /\ resp'[p].status = 302
                        /\ resp'[p].long_url = Some(e.long_url)
                     \/ pc'[p] = "db" /\ ~loc'[p].cache_ok
       /\ now' # now => \A e \in cache : e.exp > now' => e \in cache']_vars

\* C25 witness: a redirect has been served from the cache one tick after the
\* entry was written by a redirect that read the live row from the store.
C25_Witness ==
    /\ pc["p1"] = "done" /\ req["p1"].op = "redirect"
    /\ loc["p1"].hit /\ resp["p1"].status = 302
    /\ \E e \in cache : /\ e.slug = Val(req["p1"].slug)
                        /\ Some(e.long_url) = resp["p1"].long_url
                        /\ e.exp = now + redis_ttl - 1
    /\ \E i \in 1..Len(store) : /\ store[i].slug = Val(req["p1"].slug)
                                /\ ~is_expired(store[i], now)

----------------------------------------------------------------------------
(* Several rows with one long_url *)

\* C26: a valid create request for a long_url that two or more rows of the
\* store map to is not answered with an error: either it goes on to allocate
\* a slug, or it is answered 200 with the slug of a non-expired row of that
\* long_url.
C26_DuplicateRowsStillServed ==
    [][\A p \in Procs :
          CreateStep(p) /\ Len(RowsWithUrl(store, Val(req'[p].long_url))) >= 2
          => /\ resp'[p].raised = ""
             /\ pc'[p] = "done"
                => /\ resp'[p].status = 200
                   /\ \E i \in 1..Len(store) :
                         /\ Some(store[i].slug) = resp'[p].data
                         /\ store[i].long_url = Val(req'[p].long_url)
                         /\ ~is_expired(store[i], now)]_vars

----------------------------------------------------------------------------
(* Expired rows on the read paths *)

\* C27: while an expired row is still stored, a redirect of its slug answers
\* 404, a create request for its long_url is not answered with its slug, a
\* GET /api/v1/urls/{slug} of its slug answers 404, and no listing shows it.
C27_ExpiredAbsentOnEveryRead ==
    [][\A p \in Procs :
         Stepped(p) /\ pc'[p] = "done"
         => /\ req'[p].op \in {"redirect", "info"}
               /\ ExpiredRow(Val(req'[p].slug))
               => resp'[p].status = 404
            /\ CreateStep(p) /\ resp'[p].status = 200
               => ~ExpiredRow(Val(resp'[p].data))
            /\ req'[p].op = "list"
               => \A i \in 1..Len(resp'[p].items) :
                     ~ExpiredRow(resp'[p].items[i].slug)]_vars

----------------------------------------------------------------------------
(* The answer to a create request *)

\* C28: when a create request has been answered 200, the custom_slug flag and
\* the expires_at of the answer are those of the stored row of the slug in the
\* answer, whether the row was inserted for this request or found by the
\* check for an existing URL.
C28_ResponseMatchesStoredRow ==
    [][\A p \in Procs :
          /\ Stepped(p) /\ pc'[p] = "done"
          /\ req'[p].op = "create" /\ resp'[p].status = 200
          => \E i \in 1..Len(store') :
               /\ Some(store'[i].slug) = resp'[p].data
               /\ store'[i].custom_slug = resp'[p].custom_slug
               /\ store'[i].expires_at = resp'[p].expires_at]_vars

----------------------------------------------------------------------------
(* Immutability of stored rows *)

\* The call of generate_short_url of p has returned a slug in this step
AllocSucceeds(p) == pc'[p] = "done" /\ Succeeded(resp'[p])

\* C29: a row whose slug is still stored after a step is stored unchanged
\* after it (same long_url, custom_slug flag and expires_at); a step of
\* generate_short_url that does not return a slug (a collision that is
\* retried, a taken custom slug, a slug of invalid format, all attempts used)
\* leaves the store as it was, and the step that returns one has appended
\* exactly one row.
C29_RowsImmutable ==
    [][/\ \A i \in 1..Len(store) :
            store[i].slug \in StoredSlugs'
            => \E j \in 1..Len(store') : store'[j] = store[i]
       /\ \A p \in Procs :
            Stepped(p) /\ pc[p] = "alloc"
            => IF AllocSucceeds(p)
               THEN /\ Len(store') = Len(store) + 1
                    /\ SubSeq(store', 1, Len(store)) = store
                    /\ Some(store'[Len(store')].slug) = resp'[p].data
               ELSE store' = store]_vars

\* C29 witness: a call without custom slug has used up its attempts, more than
\* one, and a call of add_slug_to_database was its last step, while the store
\* holds a custom row and a generated one.
C29_Witness ==
    /\ pc["p1"] = "done" /\ req["p1"].op = "allocate"
    /\ req["p1"].custom_slug = None
    /\ resp["p1"].raised = "SlugAlreadyExistsError"
    /\ loc["p1"].calls > 1
    /\ \E i, j \in 1..Len(store) : store[i].custom_slug /\ ~store[j].custom_slug

----------------------------------------------------------------------------
(* Expired rows and the reservation of their slug *)

\* The insert of the custom slug of p's request is made in this step
CustomInsert(p) ==
    /\ Stepped(p) /\ pc[p] = "alloc"
    /\ req[p].custom_slug # None /\ Attempted(p)

\* C30: the insert of a custom slug whose row is expired and still stored
\* ends the request with SlugAlreadyExistsError and leaves the store as it
\* was; an insert of a custom slug succeeds only when no row of the slug is
\* stored, and it does succeed once the sweeper or DELETE has removed the row.
C30_ExpiredRowReservesSlug ==
    [][\A p \in Procs :
         CustomInsert(p)
         => LET slug == Val(req[p].custom_slug)
            IN  /\ ExpiredRow(slug)
                   => /\ pc'[p] = "done"
                      /\ resp'[p].raised = "SlugAlreadyExistsError"
                      /\ store' = store
                /\ AllocSucceeds(p) <=> slug \notin StoredSlugs
                /\ slug \in DOMAIN removed_at /\ slug \notin StoredSlugs
                   => /\ AllocSucceeds(p) /\ resp'[p].data = Some(slug)
                      /\ slug \in StoredSlugs']_vars

\* C30 witness: a create request with the custom slug of an expired row that
\* the sweeper has not removed has ended with the conflict after one insert.
C30_Witness ==
    /\ pc["p1"] = "done" /\ req["p1"].op = "create"
    /\ req["p1"].custom_slug = Some(SlugA)
    /\ resp["p1"].raised = "SlugAlreadyExistsError" /\ resp["p1"].status = 409
    /\ loc["p1"].calls = 1
    /\ ExpiredRow(SlugA)

====
